---------------------------- MODULE Spec2Model ----------------------------
(***************************************************************************)
(* Inventory backend: the request handlers of inventory/views.py over the  *)
(* tables of inventory/models.py, the auth User table and the authtoken    *)
(* Token table.  One action per handler; a request's arguments are drawn   *)
(* from small sets, its response is recorded in resp.                      *)
(*                                                                         *)
(* Conventions.  A missing or empty request field is the empty string (the *)
(* handlers test fields with "not x", which treats both alike).  admin_key *)
(* and the ADMIN_SIGNUP_KEY environment value are sequences of characters  *)
(* so that str.strip() is computed.  A token key is a 160-bit random       *)
(* string: a new key is modelled as a key never issued before (nextKey).   *)
(* Primary keys come from a sequence and are never reused.  Register and   *)
(* Login requests carry no Authorization header.                           *)
(***************************************************************************)
EXTENDS Integers, Sequences, FiniteSets, TLC

VARIABLES
    environ,    \* os.environ["ADMIN_SIGNUP_KEY"], fixed at process start
    users,      \* auth User table: username -> row
    tokens,     \* authtoken Token table: key -> username (one-to-one user)
    nextKey,    \* the next token key to be generated
    pending,    \* Register requests between their existence check and insert
    suppliers,  \* Supplier table: id -> row
    products,   \* Product table: id -> row
    orders,     \* Order table: id -> row
    nextId,     \* next primary key of each inventory table
    resp,       \* the last request and its response
    curPw,      \* history: username -> the password last set for it
    revoked     \* history: token keys presented to a successful Logout

vars == <<environ, users, tokens, nextKey, pending, suppliers, products,
          orders, nextId, resp, curPw, revoked>>

authVars == <<users, tokens, nextKey, curPw, revoked>>
invVars == <<suppliers, products, orders, nextId>>

----------------------------------------------------------------------------
(* Bounds *)

MaxTokens == 2
MaxRows == 4
MaxPending == 2

----------------------------------------------------------------------------
(* Request inputs *)

NoToken == 0
NoUser == ""
NoId == 0

Usernames == {"alice", "bob"}
UsernameInputs == Usernames \cup {""}
PasswordInputs == {"", "p1", "p2"}
Missing == "<missing>"
EmailInputs == {"a@x"}
ProfileEmailInputs == {Missing, "b@x"}
FirstNameInputs == {Missing, "Al"}
LastNameInputs == {Missing, "Li"}
RoleInputs == {"", "Staff", "Admin", "Root"}
KeyInputs == {<< >>, <<" ", "k">>, <<"x">>}
EnvInputs == {<< >>, <<"k", " ">>}
TokenInputs == 0..MaxTokens

----------------------------------------------------------------------------
(* Helpers *)

RECURSIVE LStrip(_)
LStrip(s) == IF s # << >> /\ Head(s) = " " THEN LStrip(Tail(s)) ELSE s

RECURSIVE RStrip(_)
RStrip(s) ==
    IF s # << >> /\ s[Len(s)] = " " THEN RStrip(SubSeq(s, 1, Len(s) - 1)) ELSE s

Strip(s) == RStrip(LStrip(s))

ADMIN_SIGNUP_KEY == Strip(environ)

_get_role_from_user(user) ==
    IF user.is_superuser THEN "Admin"
    ELSE IF user.is_staff THEN "Staff"
    ELSE "User"

make_password(raw) == <<"pbkdf2_sha256", raw>>

(* Mutant: any password passes. *)
check_passwordAny(raw, encoded) == TRUE

check_password(raw, encoded) == make_password(raw) = encoded

Response(op, status, error) ==
    [op |-> op, status |-> status, error |-> error, token |-> NoToken,
     user |-> NoUser, password |-> "", key |-> NoToken, list |-> << >>,
     id |-> NoId]

(* rest_framework TokenAuthentication: the user of the presented key. *)
TokenAuthentication(tok) ==
    IF tok \in DOMAIN tokens THEN tokens[tok] ELSE NoUser

(* permissions.IsAuthenticated over TokenAuthentication: 0 when the request
   may proceed, else the status of the refusal. *)
IsAuthenticated(tok) ==
    IF TokenAuthentication(tok) # NoUser THEN 0 ELSE 401

AuthError(tok) ==
    IF tok = NoToken THEN "Authentication credentials were not provided."
    ELSE "Invalid token."

(* Mutant: any authenticated user passes. *)
IsAdminUserAny(tok) ==
    IF TokenAuthentication(tok) = NoUser THEN 401 ELSE 0

(* permissions.IsAdminUser: request.user and request.user.is_staff *)
IsAdminUser(tok) ==
    IF TokenAuthentication(tok) = NoUser THEN 401
    ELSE IF users[TokenAuthentication(tok)].is_staff THEN 0
    ELSE 403

Restrict(f, S) == [x \in S |-> f[x]]

(* Token.objects.get_or_create(user=user): the key of the user's token. *)
UserKeys(u) == {k \in DOMAIN tokens : tokens[k] = u}

HasToken(u) == UserKeys(u) # {}

TokenKey(u) == IF HasToken(u) THEN CHOOSE k \in UserKeys(u) : TRUE ELSE nextKey

(* Mutant: a token is created whether or not the user has one. *)
get_or_createAlways(u) ==
    /\ tokens' = tokens @@ (nextKey :> u)
    /\ nextKey' = nextKey + 1

get_or_create(u) ==
    /\ tokens' = IF HasToken(u) THEN tokens ELSE tokens @@ (nextKey :> u)
    /\ nextKey' = IF HasToken(u) THEN nextKey ELSE nextKey + 1

----------------------------------------------------------------------------
InitEnv(envs) ==
    /\ environ \in envs
    /\ users = << >>
    /\ tokens = << >>
    /\ nextKey = 1
    /\ pending = << >>
    /\ suppliers = << >>
    /\ products = << >>
    /\ orders = << >>
    /\ nextId = [t \in {"supplier", "product", "order"} |-> 1]
    /\ resp = Response("", 0, "")
    /\ curPw = << >>
    /\ revoked = {}

Init == InitEnv(EnvInputs)

(* The handlers that never read ADMIN_SIGNUP_KEY: the key is unset. *)
InitNoKey == InitEnv({<< >>})

----------------------------------------------------------------------------
(* RegisterView.post *)

RegisterRequest(u, p, e, role, key) ==
    [username |-> u, password |-> p, email |-> e, role |-> role,
     admin_key |-> key]

RegisterResponse(req, status, error) ==
    [Response("Register", status, error) EXCEPT
        !.user = req.username, !.password = req.password]

NormalizeRole(role) ==
    IF role \in {"Admin", "Staff", "User"} THEN role ELSE "User"

(* Mutant: the existence check of lines 67-71 is left out. *)
RegisterCheckNoConflict(req) ==
    IF req.username = "" \/ req.password = ""
    THEN RegisterResponse(req, 400, "Username and password are required.")
    ELSE IF NormalizeRole(req.role) = "Admin" /\ ADMIN_SIGNUP_KEY = << >>
    THEN RegisterResponse(req, 500, "Server is not configured with ADMIN_SIGNUP_KEY.")
    ELSE IF NormalizeRole(req.role) = "Admin" /\ Strip(req.admin_key) = << >>
    THEN RegisterResponse(req, 400, "Admin key is required to create an admin account.")
    ELSE IF NormalizeRole(req.role) = "Admin" /\ Strip(req.admin_key) # ADMIN_SIGNUP_KEY
    THEN RegisterResponse(req, 403, "Invalid admin key. Account was not created.")
    ELSE RegisterResponse(req, 0, "")

(* Lines 54-102: the checks before the insert.  0 when the request passes,
   else the response of the early return. *)
RegisterCheck(req) ==
    IF req.username = "" \/ req.password = ""
    THEN RegisterResponse(req, 400, "Username and password are required.")
    ELSE IF req.username \in DOMAIN users
    THEN RegisterResponse(req, 400, "Username already exists.")
    ELSE IF NormalizeRole(req.role) = "Admin" /\ ADMIN_SIGNUP_KEY = << >>
    THEN RegisterResponse(req, 500, "Server is not configured with ADMIN_SIGNUP_KEY.")
    ELSE IF NormalizeRole(req.role) = "Admin" /\ Strip(req.admin_key) = << >>
    THEN RegisterResponse(req, 400, "Admin key is required to create an admin account.")
    ELSE IF NormalizeRole(req.role) = "Admin" /\ Strip(req.admin_key) # ADMIN_SIGNUP_KEY
    THEN RegisterResponse(req, 403, "Invalid admin key. Account was not created.")
    ELSE RegisterResponse(req, 0, "")

NewUser(req) ==
    [password |-> make_password(req.password),
     email |-> req.email, first_name |-> "", last_name |-> "",
     is_staff |-> NormalizeRole(req.role) \in {"Admin", "Staff"},
     is_superuser |-> NormalizeRole(req.role) = "Admin",
     date_joined |-> Cardinality(DOMAIN users) + 1]

(* Lines 104-127: create_user, the role flags, the token, the response.
   The unique constraint of auth_user.username makes the INSERT of a taken
   username raise IntegrityError, which the view does not catch: Django
   answers 500 with its own error page. *)
RegisterInsert(req) ==
    IF req.username \in DOMAIN users
    THEN /\ resp' = RegisterResponse(req, 500, "IntegrityError")
         /\ UNCHANGED authVars
    ELSE /\ users' = users @@ (req.username :> NewUser(req))
         /\ curPw' = curPw @@ (req.username :> req.password)
         /\ tokens' = tokens @@ (nextKey :> req.username)
         /\ nextKey' = nextKey + 1
         /\ resp' = [RegisterResponse(req, 201, "") EXCEPT !.key = nextKey]
         /\ UNCHANGED revoked

Register(u, p, e, role, key) ==
    LET req == RegisterRequest(u, p, e, role, key) IN
    /\ RegisterCheck(req).status = 0 => nextKey <= MaxTokens
    /\ IF RegisterCheck(req).status # 0
       THEN resp' = RegisterCheck(req) /\ UNCHANGED authVars
       ELSE RegisterInsert(req)
    /\ UNCHANGED <<environ, pending, invVars>>

----------------------------------------------------------------------------
(* LoginView.post *)

(* django.contrib.auth.authenticate: the user, or NoUser *)
authenticate(u, p) ==
    IF u \in DOMAIN users /\ check_password(p, users[u].password)
    THEN u ELSE NoUser

LoginResponse(u, p, status, error) ==
    [Response("Login", status, error) EXCEPT !.user = u, !.password = p]

Login(u, p) ==
    /\ (authenticate(u, p) # NoUser /\ ~HasToken(u)) => nextKey <= MaxTokens
    /\ IF u = "" \/ p = ""
       THEN /\ resp' = LoginResponse(u, p, 400, "Username and password are required.")
            /\ UNCHANGED authVars
       ELSE IF authenticate(u, p) = NoUser
       THEN /\ resp' = LoginResponse(u, p, 401, "Invalid username or password.")
            /\ UNCHANGED authVars
       ELSE /\ get_or_create(u)
            /\ resp' = [LoginResponse(u, p, 200, "") EXCEPT !.key = TokenKey(u)]
            /\ UNCHANGED <<users, curPw, revoked>>
    /\ UNCHANGED <<environ, pending, invVars>>

----------------------------------------------------------------------------
(* LogoutView.post *)

(* Mutant: the token is kept. *)
LogoutDeleteNone(u) == tokens

(* request.user.auth_token.delete() *)
LogoutDelete(u) == Restrict(tokens, DOMAIN tokens \ UserKeys(u))

Logout(tok) ==
    /\ IF IsAuthenticated(tok) # 0
       THEN /\ resp' = [Response("Logout", 401, AuthError(tok)) EXCEPT !.token = tok]
            /\ UNCHANGED authVars
       ELSE /\ tokens' = LogoutDelete(TokenAuthentication(tok))
            /\ revoked' = revoked \cup {tok}
            /\ resp' = [Response("Logout", 200, "") EXCEPT
                           !.token = tok, !.user = TokenAuthentication(tok)]
            /\ UNCHANGED <<users, nextKey, curPw>>
    /\ UNCHANGED <<environ, pending, invVars>>

----------------------------------------------------------------------------
(* ProfileView.get, ProfileView.put *)

ProfileGet(tok) ==
    /\ resp' = IF IsAuthenticated(tok) # 0
               THEN [Response("ProfileGet", 401, AuthError(tok)) EXCEPT !.token = tok]
               ELSE [Response("ProfileGet", 200, "") EXCEPT
                        !.token = tok, !.user = TokenAuthentication(tok)]
    /\ UNCHANGED <<environ, pending, authVars, invVars>>

(* request.data.get(field, current) *)
DataGet(value, current) == IF value = Missing THEN current ELSE value

ProfilePutRow(row, e, f, l) ==
    [row EXCEPT !.email = DataGet(e, row.email),
                !.first_name = DataGet(f, row.first_name),
                !.last_name = DataGet(l, row.last_name)]

ProfilePut(tok, e, f, l) ==
    /\ IF IsAuthenticated(tok) # 0
       THEN /\ resp' = [Response("ProfilePut", 401, AuthError(tok)) EXCEPT !.token = tok]
            /\ UNCHANGED users
       ELSE /\ users' = [users EXCEPT ![TokenAuthentication(tok)] =
                            ProfilePutRow(@, e, f, l)]
            /\ resp' = [Response("ProfilePut", 200, "") EXCEPT
                           !.token = tok, !.user = TokenAuthentication(tok)]
    /\ UNCHANGED <<environ, pending, tokens, nextKey, curPw, revoked, invVars>>

----------------------------------------------------------------------------
(* ChangePasswordView.post *)

ChangePasswordResponse(tok, status, error) ==
    [Response("ChangePassword", status, error) EXCEPT
        !.token = tok, !.user = TokenAuthentication(tok)]

set_password(row, raw) == [row EXCEPT !.password = make_password(raw)]

ChangePassword(tok, old, new) ==
    /\ IF IsAuthenticated(tok) # 0
       THEN /\ resp' = ChangePasswordResponse(tok, 401, AuthError(tok))
            /\ UNCHANGED <<users, curPw>>
       ELSE IF old = "" \/ new = ""
       THEN /\ resp' = ChangePasswordResponse(tok, 400,
                           "Old password and new password are required.")
            /\ UNCHANGED <<users, curPw>>
       ELSE IF ~check_password(old, users[TokenAuthentication(tok)].password)
       THEN /\ resp' = ChangePasswordResponse(tok, 400, "Old password is incorrect.")
            /\ UNCHANGED <<users, curPw>>
       ELSE /\ users' = [users EXCEPT ![TokenAuthentication(tok)] =
                            set_password(@, new)]
            /\ curPw' = [curPw EXCEPT ![TokenAuthentication(tok)] = new]
            /\ resp' = [ChangePasswordResponse(tok, 200, "") EXCEPT !.password = new]
    /\ UNCHANGED <<environ, pending, tokens, nextKey, revoked, invVars>>

----------------------------------------------------------------------------
(* UsersListView.get, whoami *)

RECURSIVE OrderByDateJoinedDesc(_)
OrderByDateJoinedDesc(S) ==
    IF S = {} THEN << >>
    ELSE LET u == CHOOSE x \in S :
                     \A y \in S : users[y].date_joined <= users[x].date_joined
         IN <<u>> \o OrderByDateJoinedDesc(S \ {u})

UsersList(tok) ==
    /\ resp' = IF IsAdminUser(tok) = 401
               THEN [Response("UsersList", 401, AuthError(tok)) EXCEPT !.token = tok]
               ELSE IF IsAdminUser(tok) = 403
               THEN [Response("UsersList", 403,
                        "You do not have permission to perform this action.")
                     EXCEPT !.token = tok, !.user = TokenAuthentication(tok)]
               ELSE [Response("UsersList", 200, "") EXCEPT
                        !.token = tok, !.user = TokenAuthentication(tok),
                        !.list = OrderByDateJoinedDesc(DOMAIN users)]
    /\ UNCHANGED <<environ, pending, authVars, invVars>>

Whoami(tok) ==
    /\ resp' = IF IsAuthenticated(tok) # 0
               THEN [Response("Whoami", 401, AuthError(tok)) EXCEPT !.token = tok]
               ELSE [Response("Whoami", 200, "") EXCEPT
                        !.token = tok, !.user = TokenAuthentication(tok)]
    /\ UNCHANGED <<environ, pending, authVars, invVars>>

----------------------------------------------------------------------------
(* Raw request values of the inventory serializers.  A field is missing,   *)
(* null, an integer, or text that is not an integer.                       *)

Num(n) == [kind |-> "int", n |-> n]
Text == [kind |-> "text", n |-> 0]
Null == [kind |-> "null", n |-> 0]
Absent == [kind |-> "missing", n |-> 0]

IsInt(raw) == raw.kind = "int"

Unauthorized(op, tok) ==
    [Response(op, 401, AuthError(tok)) EXCEPT !.token = tok]

Answer(op, tok, status, error, id) ==
    [Response(op, status, error) EXCEPT
        !.token = tok, !.user = TokenAuthentication(tok), !.id = id]

NotFound(op, tok, id) == Answer(op, tok, 404, "Not found.", id)

(* A read-only handler (list, retrieve): 401, 404 or 200. *)
RowsCreated == nextId["supplier"] + nextId["product"] + nextId["order"] - 3

ReadOnly(op, tok, id, table) ==
    /\ resp' = IF IsAuthenticated(tok) # 0 THEN Unauthorized(op, tok)
               ELSE IF id # NoId /\ id \notin DOMAIN table THEN NotFound(op, tok, id)
               ELSE Answer(op, tok, 200, "", id)
    /\ UNCHANGED <<environ, pending, authVars, invVars>>

Drop(table, id) == Restrict(table, DOMAIN table \ {id})

----------------------------------------------------------------------------
(* SupplierViewSet with SupplierSerializer *)

SupplierInvalid(name, partial) ==
    IF name = Missing /\ ~partial THEN "name: This field is required."
    ELSE IF name = "" THEN "name: This field may not be blank."
    ELSE ""

SupplierList(tok) == ReadOnly("SupplierList", tok, NoId, suppliers)

SupplierRetrieve(tok, id) == ReadOnly("SupplierRetrieve", tok, id, suppliers)

SupplierCreate(tok, name) ==
    /\ RowsCreated < MaxRows
    /\ IF IsAuthenticated(tok) # 0
       THEN /\ resp' = Unauthorized("SupplierCreate", tok)
            /\ UNCHANGED <<suppliers, nextId>>
       ELSE IF SupplierInvalid(name, FALSE) # ""
       THEN /\ resp' = Answer("SupplierCreate", tok, 400,
                              SupplierInvalid(name, FALSE), NoId)
            /\ UNCHANGED <<suppliers, nextId>>
       ELSE /\ suppliers' = suppliers @@ (nextId["supplier"] :> [name |-> name])
            /\ nextId' = [nextId EXCEPT !["supplier"] = @ + 1]
            /\ resp' = Answer("SupplierCreate", tok, 201, "", nextId["supplier"])
    /\ UNCHANGED <<environ, pending, authVars, products, orders>>

(* update (PUT, partial = FALSE) and partial_update (PATCH, partial = TRUE) *)
SupplierUpdate(tok, id, name, partial) ==
    LET op == IF partial THEN "SupplierPartialUpdate" ELSE "SupplierUpdate" IN
    /\ IF IsAuthenticated(tok) # 0
       THEN resp' = Unauthorized(op, tok) /\ UNCHANGED suppliers
       ELSE IF id \notin DOMAIN suppliers
       THEN resp' = NotFound(op, tok, id) /\ UNCHANGED suppliers
       ELSE IF SupplierInvalid(name, partial) # ""
       THEN /\ resp' = Answer(op, tok, 400, SupplierInvalid(name, partial), id)
            /\ UNCHANGED suppliers
       ELSE /\ suppliers' = [suppliers EXCEPT ![id].name = DataGet(name, @)]
            /\ resp' = Answer(op, tok, 200, "", id)
    /\ UNCHANGED <<environ, pending, authVars, products, orders, nextId>>

(* Mutant: the products keep the deleted supplier. *)
SetNullNone(id) == products

(* Product.supplier: on_delete=SET_NULL *)
SetNull(id) ==
    [p \in DOMAIN products |->
        IF products[p].supplier = id
        THEN [products[p] EXCEPT !.supplier = NoId] ELSE products[p]]

SupplierDestroy(tok, id) ==
    /\ IF IsAuthenticated(tok) # 0
       THEN /\ resp' = Unauthorized("SupplierDestroy", tok)
            /\ UNCHANGED <<suppliers, products>>
       ELSE IF id \notin DOMAIN suppliers
       THEN /\ resp' = NotFound("SupplierDestroy", tok, id)
            /\ UNCHANGED <<suppliers, products>>
       ELSE /\ suppliers' = Drop(suppliers, id)
            /\ products' = SetNull(id)
            /\ resp' = Answer("SupplierDestroy", tok, 204, "", id)
    /\ UNCHANGED <<environ, pending, authVars, orders, nextId>>

----------------------------------------------------------------------------
(* ProductViewSet with ProductSerializer *)

ProductRequest(name, sku, stock, reorder, supplier) ==
    [name |-> name, sku |-> sku, stock |-> stock, reorder_level |-> reorder,
     supplier_id |-> supplier]

SkuTaken(sku, self) ==
    \E p \in DOMAIN products \ {self} : products[p].sku = sku

(* serializer.is_valid: the first error, "" when the data are valid.
   self is the updated row (NoId on create). *)
ProductInvalid(req, self, partial) ==
    IF req.name = Missing /\ ~partial THEN "name: This field is required."
    ELSE IF req.name = "" THEN "name: This field may not be blank."
    ELSE IF req.sku = Missing /\ ~partial THEN "sku: This field is required."
    ELSE IF req.sku = "" THEN "sku: This field may not be blank."
    ELSE IF req.sku # Missing /\ SkuTaken(req.sku, self)
    THEN "sku: product with this sku already exists."
    ELSE IF req.stock.kind \in {"text", "null"}
    THEN "stock: A valid integer is required."
    ELSE IF req.reorder_level.kind \in {"text", "null"}
    THEN "reorder_level: A valid integer is required."
    ELSE IF req.supplier_id.kind = "text"
    THEN "supplier_id: Incorrect type."
    ELSE IF IsInt(req.supplier_id) /\ req.supplier_id.n \notin DOMAIN suppliers
    THEN "supplier_id: Invalid pk - object does not exist."
    ELSE ""

IntGet(raw, current) == IF IsInt(raw) THEN raw.n ELSE current

RefGet(raw, current) ==
    IF IsInt(raw) THEN raw.n ELSE IF raw.kind = "null" THEN NoId ELSE current

(* The row a valid request writes over row cur (the model defaults on create). *)
ProductRow(req, cur) ==
    [name |-> DataGet(req.name, cur.name),
     sku |-> DataGet(req.sku, cur.sku),
     stock |-> IntGet(req.stock, cur.stock),
     reorder_level |-> IntGet(req.reorder_level, cur.reorder_level),
     supplier |-> RefGet(req.supplier_id, cur.supplier)]

ProductDefaults ==
    [name |-> "", sku |-> "", stock |-> 0, reorder_level |-> 0, supplier |-> NoId]

ProductList(tok) == ReadOnly("ProductList", tok, NoId, products)

ProductRetrieve(tok, id) == ReadOnly("ProductRetrieve", tok, id, products)

ProductCreate(tok, req) ==
    /\ RowsCreated < MaxRows
    /\ IF IsAuthenticated(tok) # 0
       THEN /\ resp' = Unauthorized("ProductCreate", tok)
            /\ UNCHANGED <<products, nextId>>
       ELSE IF ProductInvalid(req, NoId, FALSE) # ""
       THEN /\ resp' = Answer("ProductCreate", tok, 400,
                              ProductInvalid(req, NoId, FALSE), NoId)
            /\ UNCHANGED <<products, nextId>>
       ELSE /\ products' = products @@
                    (nextId["product"] :> ProductRow(req, ProductDefaults))
            /\ nextId' = [nextId EXCEPT !["product"] = @ + 1]
            /\ resp' = Answer("ProductCreate", tok, 201, "", nextId["product"])
    /\ UNCHANGED <<environ, pending, authVars, suppliers, orders>>

ProductUpdate(tok, id, req, partial) ==
    LET op == IF partial THEN "ProductPartialUpdate" ELSE "ProductUpdate" IN
    /\ IF IsAuthenticated(tok) # 0
       THEN resp' = Unauthorized(op, tok) /\ UNCHANGED products
       ELSE IF id \notin DOMAIN products
       THEN resp' = NotFound(op, tok, id) /\ UNCHANGED products
       ELSE IF ProductInvalid(req, id, partial) # ""
       THEN /\ resp' = Answer(op, tok, 400, ProductInvalid(req, id, partial), id)
            /\ UNCHANGED products
       ELSE /\ products' = [products EXCEPT ![id] = ProductRow(req, @)]
            /\ resp' = Answer(op, tok, 200, "", id)
    /\ UNCHANGED <<environ, pending, authVars, suppliers, orders, nextId>>

(* Order.product: on_delete=CASCADE *)
Cascade(id) ==
    Restrict(orders, {o \in DOMAIN orders : orders[o].product # id})

ProductDestroy(tok, id) ==
    /\ IF IsAuthenticated(tok) # 0
       THEN /\ resp' = Unauthorized("ProductDestroy", tok)
            /\ UNCHANGED <<products, orders>>
       ELSE IF id \notin DOMAIN products
       THEN /\ resp' = NotFound("ProductDestroy", tok, id)
            /\ UNCHANGED <<products, orders>>
       ELSE /\ products' = Drop(products, id)
            /\ orders' = Cascade(id)
            /\ resp' = Answer("ProductDestroy", tok, 204, "", id)
    /\ UNCHANGED <<environ, pending, authVars, suppliers, nextId>>

(* POST products/<id>/adjust_stock/: ProductViewSet declares no extra action,
   so the router has no such route and the URL resolver answers 404. *)
AdjustStock(tok, id, amount) ==
    /\ resp' = [Response("AdjustStock", 404, "Not Found") EXCEPT
                   !.token = tok, !.id = id]
    /\ UNCHANGED <<environ, pending, authVars, invVars>>

----------------------------------------------------------------------------
(* OrderViewSet with OrderSerializer *)

STATUS_CHOICES == {"pending", "completed", "cancelled"}

OrderRequest(number, product, quantity, status) ==
    [order_number |-> number, product_id |-> product, quantity |-> quantity,
     status |-> status]

NumberTaken(number, self) ==
    \E o \in DOMAIN orders \ {self} : orders[o].order_number = number

(* The least quantity the serializer accepts: the MinValueValidator that
   PositiveIntegerField carries, which the ModelSerializer turns into
   min_value. *)
QuantityMinValue == 0

OrderInvalid(req, self, partial) ==
    IF req.order_number = Missing /\ ~partial
    THEN "order_number: This field is required."
    ELSE IF req.order_number = "" THEN "order_number: This field may not be blank."
    ELSE IF req.order_number # Missing /\ NumberTaken(req.order_number, self)
    THEN "order_number: order with this order number already exists."
    ELSE IF req.product_id.kind = "missing" /\ ~partial
    THEN "product_id: This field is required."
    ELSE IF req.product_id.kind = "null" THEN "product_id: This field may not be null."
    ELSE IF req.product_id.kind = "text" THEN "product_id: Incorrect type."
    ELSE IF IsInt(req.product_id) /\ req.product_id.n \notin DOMAIN products
    THEN "product_id: Invalid pk - object does not exist."
    ELSE IF req.quantity.kind = "missing" /\ ~partial
    THEN "quantity: This field is required."
    ELSE IF req.quantity.kind \in {"text", "null"}
    THEN "quantity: A valid integer is required."
    ELSE IF IsInt(req.quantity) /\ req.quantity.n < QuantityMinValue
    THEN "quantity: Ensure this value is greater than or equal to 0."
    ELSE IF req.status # Missing /\ req.status \notin STATUS_CHOICES
    THEN "status: not a valid choice."
    ELSE ""

OrderRow(req, cur) ==
    [order_number |-> DataGet(req.order_number, cur.order_number),
     product |-> IntGet(req.product_id, cur.product),
     quantity |-> IntGet(req.quantity, cur.quantity),
     status |-> DataGet(req.status, cur.status),
     created_at |-> cur.created_at]

OrderDefaults ==
    [order_number |-> "", product |-> NoId, quantity |-> 0, status |-> "pending",
     created_at |-> nextId["order"]]

OrderList(tok) == ReadOnly("OrderList", tok, NoId, orders)

OrderRetrieve(tok, id) == ReadOnly("OrderRetrieve", tok, id, orders)

OrderCreate(tok, req) ==
    /\ RowsCreated < MaxRows
    /\ IF IsAuthenticated(tok) # 0
       THEN /\ resp' = Unauthorized("OrderCreate", tok)
            /\ UNCHANGED <<orders, nextId>>
       ELSE IF OrderInvalid(req, NoId, FALSE) # ""
       THEN /\ resp' = Answer("OrderCreate", tok, 400,
                              OrderInvalid(req, NoId, FALSE), NoId)
            /\ UNCHANGED <<orders, nextId>>
       ELSE /\ orders' = orders @@ (nextId["order"] :> OrderRow(req, OrderDefaults))
            /\ nextId' = [nextId EXCEPT !["order"] = @ + 1]
            /\ resp' = Answer("OrderCreate", tok, 201, "", nextId["order"])
    /\ UNCHANGED <<environ, pending, authVars, suppliers, products>>

OrderUpdate(tok, id, req, partial) ==
    LET op == IF partial THEN "OrderPartialUpdate" ELSE "OrderUpdate" IN
    /\ IF IsAuthenticated(tok) # 0
       THEN resp' = Unauthorized(op, tok) /\ UNCHANGED orders
       ELSE IF id \notin DOMAIN orders
       THEN resp' = NotFound(op, tok, id) /\ UNCHANGED orders
       ELSE IF OrderInvalid(req, id, partial) # ""
       THEN /\ resp' = Answer(op, tok, 400, OrderInvalid(req, id, partial), id)
            /\ UNCHANGED orders
       ELSE /\ orders' = [orders EXCEPT ![id] = OrderRow(req, @)]
            /\ resp' = Answer(op, tok, 200, "", id)
    /\ UNCHANGED <<environ, pending, authVars, suppliers, products, nextId>>

OrderDestroy(tok, id) ==
    /\ IF IsAuthenticated(tok) # 0
       THEN resp' = Unauthorized("OrderDestroy", tok) /\ UNCHANGED orders
       ELSE IF id \notin DOMAIN orders
       THEN resp' = NotFound("OrderDestroy", tok, id) /\ UNCHANGED orders
       ELSE /\ orders' = Drop(orders, id)
            /\ resp' = Answer("OrderDestroy", tok, 204, "", id)
    /\ UNCHANGED <<environ, pending, authVars, suppliers, products, nextId>>

----------------------------------------------------------------------------
(* Two Register requests in flight: the checks of lines 54-102 and the     *)
(* insert of lines 104-127 are separate steps, and other requests run      *)
(* between them.                                                           *)

RegisterBegin(slot, u, p, e, role, key) ==
    LET req == RegisterRequest(u, p, e, role, key) IN
    /\ slot \notin DOMAIN pending
    /\ IF RegisterCheck(req).status # 0
       THEN resp' = RegisterCheck(req) /\ UNCHANGED pending
       ELSE pending' = pending @@ (slot :> req) /\ UNCHANGED resp
    /\ UNCHANGED <<environ, authVars, invVars>>

RegisterCommit(slot) ==
    /\ slot \in DOMAIN pending
    /\ nextKey <= MaxTokens
    /\ pending' = Restrict(pending, DOMAIN pending \ {slot})
    /\ RegisterInsert(pending[slot])
    /\ UNCHANGED <<environ, invVars>>

----------------------------------------------------------------------------
(* Specifications.  Each draws the requests of its handlers from the sets  *)
(* its properties need.                                                    *)

Slots == 1..MaxPending
IdInputs == 1..3

(* The account handlers, two usernames. *)
NextAuth ==
    \/ \E u \in UsernameInputs, p \in PasswordInputs, e \in EmailInputs,
          role \in RoleInputs, key \in KeyInputs : Register(u, p, e, role, key)
    \/ \E u \in UsernameInputs, p \in PasswordInputs : Login(u, p)
    \/ \E tok \in TokenInputs : Logout(tok)
    \/ \E tok \in TokenInputs, old \in PasswordInputs, new \in PasswordInputs :
          ChangePassword(tok, old, new)
    \/ \E tok \in TokenInputs : UsersList(tok)

Spec == Init /\ [][NextAuth]_vars

(* One account through every account handler. *)
NextAccount ==
    \/ \E p \in PasswordInputs, e \in EmailInputs, role \in RoleInputs,
          key \in KeyInputs : Register("alice", p, e, role, key)
    \/ \E p \in PasswordInputs : Login("alice", p)
    \/ \E tok \in TokenInputs : Logout(tok)
    \/ \E tok \in TokenInputs : ProfileGet(tok)
    \/ \E tok \in TokenInputs, e \in ProfileEmailInputs, f \in FirstNameInputs,
          l \in LastNameInputs : ProfilePut(tok, e, f, l)
    \/ \E tok \in TokenInputs, old \in PasswordInputs, new \in PasswordInputs :
          ChangePassword(tok, old, new)
    \/ \E tok \in TokenInputs : UsersList(tok)
    \/ \E tok \in TokenInputs : Whoami(tok)

SpecAccount == Init /\ [][NextAccount]_vars

(* Concurrent registrations. *)
NextRace ==
    \/ \E slot \in Slots, u \in Usernames, p \in {"p1", "p2"}, role \in {"", "Admin"},
          key \in KeyInputs : RegisterBegin(slot, u, p, "a@x", role, key)
    \/ \E slot \in Slots : RegisterCommit(slot)
    \/ \E u \in Usernames, p \in {"p1", "p2"} : Login(u, p)
    \/ \E tok \in TokenInputs : Logout(tok)

SpecRace == Init /\ [][NextRace]_vars

(* Every token-protected handler, one account, one row of each table. *)
NextSession ==
    \/ Register("alice", "p1", "a@x", "Staff", << >>)
    \/ \E p \in {"p1", "p2"} : Login("alice", p)
    \/ \E tok \in TokenInputs : Logout(tok)
    \/ \E tok \in TokenInputs : ProfileGet(tok)
    \/ \E tok \in TokenInputs : ProfilePut(tok, "b@x", Missing, Missing)
    \/ \E tok \in TokenInputs : ChangePassword(tok, "p1", "p2")
    \/ \E tok \in TokenInputs : UsersList(tok)
    \/ \E tok \in TokenInputs : Whoami(tok)
    \/ \E tok \in TokenInputs : SupplierList(tok)
    \/ \E tok \in TokenInputs : SupplierRetrieve(tok, 1)
    \/ \E tok \in TokenInputs : SupplierCreate(tok, "acme")
    \/ \E tok \in TokenInputs, partial \in BOOLEAN :
          SupplierUpdate(tok, 1, "acme", partial)
    \/ \E tok \in TokenInputs : SupplierDestroy(tok, 1)
    \/ \E tok \in TokenInputs : ProductList(tok)
    \/ \E tok \in TokenInputs : ProductRetrieve(tok, 1)
    \/ \E tok \in TokenInputs :
          ProductCreate(tok, ProductRequest("widget", "s1", Absent, Absent, Absent))
    \/ \E tok \in TokenInputs, partial \in BOOLEAN :
          ProductUpdate(tok, 1, ProductRequest("widget", "s1", Absent, Absent, Num(1)),
                        partial)
    \/ \E tok \in TokenInputs : ProductDestroy(tok, 1)
    \/ \E tok \in TokenInputs : OrderList(tok)
    \/ \E tok \in TokenInputs : OrderRetrieve(tok, 1)
    \/ \E tok \in TokenInputs :
          OrderCreate(tok, OrderRequest("o1", Num(1), Num(1), Missing))
    \/ \E tok \in TokenInputs, partial \in BOOLEAN :
          OrderUpdate(tok, 1, OrderRequest("o1", Num(1), Num(1), Missing), partial)
    \/ \E tok \in TokenInputs : OrderDestroy(tok, 1)

SpecSession == InitNoKey /\ [][NextSession]_vars

(* The inventory handlers behind the session of one account (the first key
   issued): the references between suppliers, products and orders. *)
SessionInputs == {1}
RefInputs == {Num(i) : i \in IdInputs}

NextInv ==
    \/ Register("alice", "p1", "a@x", "", << >>)
    \/ \E tok \in SessionInputs : SupplierList(tok)
    \/ \E tok \in SessionInputs : SupplierRetrieve(tok, 1)
    \/ \E tok \in SessionInputs : SupplierCreate(tok, "acme")
    \/ \E tok \in SessionInputs, partial \in BOOLEAN :
          SupplierUpdate(tok, 1, "acme", partial)
    \/ \E tok \in SessionInputs, id \in IdInputs : SupplierDestroy(tok, id)
    \/ \E tok \in SessionInputs : ProductList(tok)
    \/ \E tok \in SessionInputs : ProductRetrieve(tok, 1)
    \/ \E tok \in SessionInputs, sku \in {"s1", "s2"},
          ref \in RefInputs \cup {Absent} :
          ProductCreate(tok, ProductRequest("widget", sku, Absent, Absent, ref))
    \/ \E tok \in SessionInputs, id \in IdInputs, ref \in RefInputs \cup {Null} :
          ProductUpdate(tok, id,
                        ProductRequest(Missing, Missing, Absent, Absent, ref), TRUE)
    \/ \E tok \in SessionInputs, ref \in RefInputs \cup {Absent} :
          ProductUpdate(tok, 1,
                        ProductRequest("widget", "s1", Absent, Absent, ref), FALSE)
    \/ \E tok \in SessionInputs, id \in IdInputs : ProductDestroy(tok, id)
    \/ \E tok \in SessionInputs : OrderList(tok)
    \/ \E tok \in SessionInputs : OrderRetrieve(tok, 1)
    \/ \E tok \in SessionInputs, number \in {"o1", "o2"},
          ref \in RefInputs \cup {Absent} :
          OrderCreate(tok, OrderRequest(number, ref, Num(1), Missing))
    \/ \E tok \in SessionInputs, id \in IdInputs, ref \in RefInputs :
          OrderUpdate(tok, id, OrderRequest(Missing, ref, Absent, Missing), TRUE)
    \/ \E tok \in SessionInputs, ref \in RefInputs \cup {Absent} :
          OrderUpdate(tok, 1, OrderRequest("o1", ref, Num(1), "pending"), FALSE)
    \/ \E tok \in SessionInputs, id \in IdInputs : OrderDestroy(tok, id)

SpecInv == InitNoKey /\ [][NextInv]_vars

(* Stock and order quantities. *)
StockInputs == {Absent, Text, Num(3)}
AmountInputs == {Text, Num(-10), Num(5)}
QuantityInputs == {Absent, Text, Num(-1), Num(0), Num(1)}

NextStock ==
    \/ Register("alice", "p1", "a@x", "", << >>)
    \/ \E tok \in SessionInputs, stock \in StockInputs :
          ProductCreate(tok, ProductRequest("widget", "s1", stock, Absent, Absent))
    \/ \E tok \in SessionInputs, id \in IdInputs, stock \in {Text, Num(-5), Num(8)} :
          ProductUpdate(tok, id,
                        ProductRequest(Missing, Missing, stock, Absent, Absent), TRUE)
    \/ \E tok \in SessionInputs, id \in IdInputs, amount \in AmountInputs :
          AdjustStock(tok, id, amount)
    \/ \E tok \in SessionInputs, number \in {"", "o1", "o2"}, ref \in RefInputs,
          quantity \in QuantityInputs, status \in {Missing, "completed", "shipped"} :
          OrderCreate(tok, OrderRequest(number, ref, quantity, status))
    \/ \E tok \in SessionInputs, id \in IdInputs, quantity \in QuantityInputs :
          OrderUpdate(tok, id, OrderRequest(Missing, Absent, quantity, Missing), TRUE)

SpecStock == InitNoKey /\ [][NextStock]_vars

----------------------------------------------------------------------------
(* Properties *)

(* C1: an identity has is_staff or is_superuser only if the Register that
   created it asked for role "Admin" with an admin_key that, trimmed, equals
   the non-empty ADMIN_SIGNUP_KEY; no later request changes the flags. *)
C1_FlagsOnlyByAdminKey ==
    [][/\ \A p \in PasswordInputs, e \in EmailInputs, role \in RoleInputs,
             key \in KeyInputs :
              (Register("alice", p, e, role, key) /\ resp'.status = 201
               /\ (users'["alice"].is_staff \/ users'["alice"].is_superuser))
              => (/\ role = "Admin"
                  /\ ADMIN_SIGNUP_KEY # << >>
                  /\ Strip(key) = ADMIN_SIGNUP_KEY)
       /\ \A u \in DOMAIN users :
              /\ users'[u].is_staff = users[u].is_staff
              /\ users'[u].is_superuser = users[u].is_superuser]_vars

LoginSucceeds == resp.status = 200 /\ resp.key \in DOMAIN tokens
                 /\ tokens[resp.key] = resp.user

LoginExpected ==
    resp.user \in DOMAIN users /\ resp.password = curPw[resp.user]

(* C3 as stated: Login succeeds exactly for a registered username with its
   current password, and every other Login fails with 401 and the one error
   body, leaving the identity and token stores unchanged. *)
C3_LoginAsStated ==
    resp.op = "Login" =>
        /\ LoginSucceeds <=> LoginExpected
        /\ ~LoginExpected =>
              resp.status = 401 /\ resp.error = "Invalid username or password."

(* C3 amended: Login succeeds exactly for a registered username with its
   current password; a failed Login with both fields non-empty gets 401 and
   the one error body whether the username is unknown or the password wrong,
   a Login with an empty field gets 400; a failed Login leaves the identity
   and token stores unchanged. *)
C3_Login ==
    /\ [](resp.op = "Login" =>
            /\ LoginSucceeds <=> LoginExpected
            /\ ~LoginExpected =>
                  IF resp.user = "" \/ resp.password = ""
                  THEN /\ resp.status = 400
                       /\ resp.error = "Username and password are required."
                  ELSE /\ resp.status = 401
                       /\ resp.error = "Invalid username or password.")
    /\ [][(resp'.op = "Login" /\ resp'.status # 200)
             => UNCHANGED <<users, tokens>>]_vars

C3_Witness ==
    /\ resp.op = "Login" /\ resp.status = 200 /\ resp.password = "p2"
    /\ \E k \in revoked : k # resp.key

(* C4 as stated: a Register with a username that is already registered fails
   with the username-conflict error whatever its other fields, and changes
   neither the identities nor the tokens. *)
C4_ConflictAsStated ==
    [][(resp'.op = "Register" /\ resp'.user \in DOMAIN users)
          => /\ resp'.status = 400
             /\ resp'.error = "Username already exists."
             /\ UNCHANGED <<users, tokens>>]_vars

(* C4 amended: a Register with a username that is already registered fails
   with status 400 and changes neither the identities nor the tokens; its
   error is the username-conflict error whenever its password is non-empty
   (with an empty password it is the missing-field error). *)
C4_Conflict ==
    [][(resp'.op = "Register" /\ resp'.user \in DOMAIN users)
          => /\ resp'.status = 400
             /\ resp'.error = IF resp'.password = ""
                              THEN "Username and password are required."
                              ELSE "Username already exists."
             /\ UNCHANGED <<users, tokens>>]_vars

C4_Witness ==
    /\ resp.op = "Register" /\ resp.error = "Username already exists."
    /\ resp.password # curPw[resp.user]

Caller == TokenAuthentication(resp.token)

Ordered(list) ==
    \A i, j \in 1..Len(list) :
        i < j => users[list[i]].date_joined > users[list[j]].date_joined

FullList(list) ==
    /\ Len(list) = Cardinality(DOMAIN users)
    /\ {list[i] : i \in 1..Len(list)} = DOMAIN users
    /\ Ordered(list)

C10_LogoutTwiceSucceeds ==
    (resp.op = "Logout" /\ resp.token \in revoked) => resp.status = 200

ProtectedOps ==
    {"Logout", "ProfileGet", "ProfilePut", "ChangePassword", "UsersList", "Whoami",
     "SupplierList", "SupplierRetrieve", "SupplierCreate", "SupplierUpdate",
     "SupplierPartialUpdate", "SupplierDestroy",
     "ProductList", "ProductRetrieve", "ProductCreate", "ProductUpdate",
     "ProductPartialUpdate", "ProductDestroy",
     "OrderList", "OrderRetrieve", "OrderCreate", "OrderUpdate",
     "OrderPartialUpdate", "OrderDestroy"}

(* C2: a token that was presented to a successful Logout is no stored token
   in any later state, and every token-protected request that presents it
   afterwards gets 401, whatever happened in between. *)
C2_LoggedOutTokenRejected ==
    /\ [](revoked \cap DOMAIN tokens = {})
    /\ [][(resp'.op \in ProtectedOps /\ resp'.token \in revoked)
             => resp'.status = 401]_vars

C2_Witness ==
    /\ resp.op = "OrderCreate" /\ resp.status = 401 /\ resp.token \in revoked
    /\ "alice" \in DOMAIN users /\ HasToken("alice")

(* C5: of the Register requests that passed the existence check for the same
   username, the ones that do not create the identity end with the
   username-conflict error response. *)
C5_RaceGivesConflict ==
    (resp.op = "Register" /\ resp.user \in DOMAIN users /\ resp.status # 201
     /\ resp.password # "")
        => resp.status = 400 /\ resp.error = "Username already exists."

Max(a, b) == IF a >= b THEN a ELSE b

(* C6: an authenticated AdjustStock(product, amount) on an existing product
   sets its stock to max(0, stock + amount) when amount is an integer, and is
   rejected with a validation error, the stock unchanged, when it is not. *)
C6_AdjustStockClamps ==
    [][\A tok \in SessionInputs, id \in DOMAIN products, amount \in AmountInputs :
          (AdjustStock(tok, id, amount) /\ IsAuthenticated(tok) = 0)
          => IF IsInt(amount)
             THEN products'[id].stock = Max(0, products[id].stock + amount.n)
             ELSE resp'.status = 400 /\ products' = products]_vars

(* C7: CreateOrder stores no order whose quantity is 0, negative or not a
   number: an order it has just stored has quantity > 0. *)
C7_CreatedOrderPositive ==
    (resp.op = "OrderCreate" /\ resp.status = 201)
        => orders[resp.id].quantity > 0

RefIntegrity ==
    /\ \A o \in DOMAIN orders : orders[o].product \in DOMAIN products
    /\ \A p \in DOMAIN products :
          products[p].supplier = NoId \/ products[p].supplier \in DOMAIN suppliers

(* C8: every stored order references a stored product and every stored
   product's supplier is null or a stored supplier; deleting a product deletes
   exactly the orders that reference it; deleting a supplier deletes no
   product and sets to null the supplier of exactly the products that
   referenced it. *)
C8_References ==
    /\ []RefIntegrity
    /\ [][(resp'.op = "ProductDestroy" /\ resp'.status = 204)
             => /\ DOMAIN products' = DOMAIN products \ {resp'.id}
                /\ DOMAIN orders' =
                      {o \in DOMAIN orders : orders[o].product # resp'.id}
                /\ \A o \in DOMAIN orders' : orders'[o] = orders[o]
                /\ suppliers' = suppliers]_vars
    /\ [][(resp'.op = "SupplierDestroy" /\ resp'.status = 204)
             => /\ DOMAIN suppliers' = DOMAIN suppliers \ {resp'.id}
                /\ DOMAIN products' = DOMAIN products
                /\ \A p \in DOMAIN products :
                      products'[p] =
                         IF products[p].supplier = resp'.id
                         THEN [products[p] EXCEPT !.supplier = NoId]
                         ELSE products[p]
                /\ orders' = orders]_vars

C8_Witness ==
    /\ resp.op = "ProductDestroy" /\ resp.status = 204
    /\ nextId["order"] = 3 /\ Cardinality(DOMAIN orders) = 1

Issued == resp.op \in {"Register", "Login"} /\ resp.status \in {200, 201}

(* C11: each identity has at most one stored token and every stored token
   belongs to an existing identity; a successful Register or Login returns
   the identity's stored token, creating it (one new key, nothing else
   changed) only when the identity had none and otherwise leaving the token
   store as it was, so that Logins with no Logout between them return the
   same token. *)
C11_OneTokenGetOrCreate ==
    /\ [](/\ \A u \in Usernames : Cardinality(UserKeys(u)) <= 1
          /\ \A k \in DOMAIN tokens : tokens[k] \in DOMAIN users
          /\ Issued => /\ resp.key \in DOMAIN tokens
                       /\ tokens[resp.key] = resp.user)
    /\ [][(resp'.op \in {"Register", "Login"} /\ resp'.status \in {200, 201})
             => IF HasToken(resp'.user)
                THEN tokens' = tokens /\ resp'.key \in UserKeys(resp'.user)
                ELSE /\ resp'.key \notin DOMAIN tokens
                     /\ tokens' = tokens @@ (resp'.key :> resp'.user)]_vars

C11_Witness ==
    /\ resp.op = "Login" /\ resp.status = 200 /\ revoked = {}
    /\ Cardinality(DOMAIN users) = 2 /\ Cardinality(DOMAIN tokens) = 2

=============================================================================
